---- MODULE Spec2Model ----
(***************************************************************************)
(* DRIP Telegram bot (drip_telegram_bot.py): start-up (token load, main)   *)
(* and the five command handlers, with the DexScreener response as input.  *)
(* A pair record is the JSON object of one LP pair; every field is kept    *)
(* with the shape the JSON gave it (key absent, null, text, number), since *)
(* the handlers' behaviour depends on that shape.                          *)
(***************************************************************************)
EXTENDS Integers, Sequences, FiniteSets, TLC

\* Longest "pairs" array drawn from FieldPairs (every liquidity/volume shape).
MaxPairs == 2
\* Longest "pairs" array drawn from RankPairs (well-formed numbers only).
MaxRanked == 4
\* Longest "pairs" array drawn from SymbolPairs (token and dexId shapes).
MaxSymbolPairs == 2

(***************************************************************************)
(* JSON shapes                                                             *)
(***************************************************************************)

\* liquidity / volume: the key is not in the pair                 ("absent"),
\* the key holds null                                             ("null"),
\* the key holds an object whose usd / h24 is missing or null     ("noleaf"),
\* usd / h24 is a text float() rejects, such as "abc"             ("text"),
\* usd / h24 is a number, or a text float() accepts, of value n   ("num").
NumAbsent == [kind |-> "absent", n |-> 0]
NumNull == [kind |-> "null", n |-> 0]
NumNoLeaf == [kind |-> "noleaf", n |-> 0]
NumText == [kind |-> "text", n |-> 0]
Num(k) == [kind |-> "num", n |-> k]

\* baseToken / quoteToken: key absent, key null, object without a symbol (or
\* symbol null), object with the symbol s.
TokAbsent == [kind |-> "absent", s |-> ""]
TokNull == [kind |-> "null", s |-> ""]
TokNoSymbol == [kind |-> "nosymbol", s |-> ""]
Tok(sym) == [kind |-> "symbol", s |-> sym]

\* dexId: key absent, null, a text s, or a JSON number (no .strip()).
DexAbsent == [kind |-> "absent", s |-> ""]
DexNull == [kind |-> "null", s |-> ""]
DexNumber == [kind |-> "number", s |-> ""]
Dex(name) == [kind |-> "text", s |-> name]

Pair(l, v, b, q, d) == [liquidity |-> l, volume |-> v, baseToken |-> b, quoteToken |-> q, dexId |-> d]

(***************************************************************************)
(* str.strip(), str.upper(), str.lower() on the texts the inputs use       *)
(***************************************************************************)
Strip(s) ==
    CASE s = " drip" -> "drip"
      [] s = "Raydium " -> "Raydium"
      [] OTHER -> s

Upper(s) ==
    CASE s = "drip" -> "DRIP"
      [] s = "Sol" -> "SOL"
      [] OTHER -> s

Lower(s) ==
    CASE s = "Raydium" -> "raydium"
      [] s = "ORCA" -> "orca"
      [] OTHER -> s

(***************************************************************************)
(* float(p.get(key, {}).get(leaf) or 0): the value, or the exception       *)
(***************************************************************************)
\* None.get raises AttributeError, float("abc") raises ValueError.
FloatRaises(f) == f.kind \in {"null", "text"}

\* Only meaningful when ~FloatRaises(f): missing and null leaves give 0.
FloatValue(f) == IF f.kind = "num" THEN f.n ELSE 0

\* (p.get(tokenKey, {}).get("symbol") or "?").strip()
SymbolRaises(t) == t.kind = "null"

SymbolValue(t) == IF t.kind = "symbol" /\ t.s # "" THEN Strip(t.s) ELSE "?"

\* (p.get("dexId", "unknown") or "unknown").strip()
DexRaises(d) == d.kind = "number"

DexValue(d) == IF d.kind = "text" /\ d.s # "" THEN Strip(d.s) ELSE "unknown"

(***************************************************************************)
(* format_usd, format_pct                                                  *)
(***************************************************************************)
\* f"${float(val):,.2f}" for a whole number below 1000 in size.
format_usd(val) ==
    IF val < 0 THEN "$-" \o ToString(0 - val) \o ".00"
    ELSE "$" \o ToString(val) \o ".00"

TwoDigits(k) == IF k < 10 THEN "0" \o ToString(k) ELSE ToString(k)

\* The float vol24h_val / liquidity_val, kept as the exact fraction (den > 0).
Fraction(vol, liq) == [num |-> vol, den |-> liq]

\* a >= b on two such fractions.
FractionGeq(a, b) == a.num * b.den >= b.num * a.den

\* f"{val:.2%}" of a ratio, rounded to a hundredth of a percent.
format_pct(val) ==
    LET hundredths == (2 * 10000 * val.num + val.den) \div (2 * val.den)
    IN  ToString(hundredths \div 100) \o "." \o TwoDigits(hundredths % 100) \o "%"

(***************************************************************************)
(* fetch_token_endpoint: what the call gave                                *)
(***************************************************************************)
\* requests.get or raise_for_status raised: str(e) is err.
FetchError(e) == [status |-> "error", err |-> e, pairsKind |-> "absent", pairs |-> <<>>]

\* resp.json() returned an object: "pairs" absent, null, or a list.
FetchData(kind, ps) == [status |-> "ok", err |-> "", pairsKind |-> kind, pairs |-> ps]

\* No fetch was made in this invocation.
NoResponse == [status |-> "none", err |-> "", pairsKind |-> "absent", pairs |-> <<>>]

\* data.get("pairs") or []
PairsOf(data) == IF data.pairsKind = "list" THEN data.pairs ELSE <<>>

(***************************************************************************)
(* update.message.reply_text                                               *)
(***************************************************************************)
\* A plain reply: one text, no parse mode.
PlainReply(t) == [text |-> t, blocks |-> <<>>, summary |-> <<>>, parse_mode |-> "none"]

\* "\n".join(lines) sent as Markdown: the header line, the pair blocks in
\* order, the summary lines.
ReportReply(header, blocks, summary) ==
    [text |-> header, blocks |-> blocks, summary |-> summary, parse_mode |-> "Markdown"]

\* What one run of a handler did: the addresses fetched, the replies sent, and
\* whether an exception left the handler.
Outcome(f, r, x) == [fetches |-> f, replies |-> r, raised |-> x]

\* Icon with the ranks counted from 1: the first entry gets no gold medal.
IconCountedFromOne(i) ==
    CASE i = 1 -> "gold"
      [] i = 2 -> "silver"
      [] i = 3 -> "bronze"
      [] OTHER -> "moneybag"

\* The medal of the i-th entry (0-based): gold, silver, bronze medal, then the
\* money bag.
Icon(i) ==
    CASE i = 0 -> "gold"
      [] i = 1 -> "silver"
      [] i = 2 -> "bronze"
      [] OTHER -> "moneybag"

(***************************************************************************)
(* sorted(..., key=..., reverse=True)                                      *)
(***************************************************************************)
\* One entry into an already sorted list: after every entry whose key is not
\* smaller, so that equal keys keep the order they arrived in.
RECURSIVE InsertDesc(_, _)
InsertDesc(sorted, e) ==
    IF sorted = <<>> THEN <<e>>
    ELSE IF FractionGeq(Head(sorted).key, e.key) THEN <<Head(sorted)>> \o InsertDesc(Tail(sorted), e)
    ELSE <<e>> \o sorted

\* A list of [key, item] entries, largest key first, stable.
RECURSIVE SortedDesc(_)
SortedDesc(entries) ==
    IF entries = <<>> THEN <<>>
    ELSE InsertDesc(SortedDesc(SubSeq(entries, 1, Len(entries) - 1)), entries[Len(entries)])

(***************************************************************************)
(* handle_volume                                                           *)
(***************************************************************************)
\* The indices 1..n of a list, in order: a pair is named by its place in the
\* fetched "pairs" list, which stands for the identity of the object p.
Indices(n) == [i \in 1..n |-> i]

\* The filter test of one pair: float() raised (liquidity_val = 0) or
\* liquidity_val > 0 failed, and the pair is left out.
HasLiquidity(p) == ~FloatRaises(p.liquidity) /\ FloatValue(p.liquidity) > 0

\* filtered_pairs, as indices into pairs.
FilterLiquidity(pairs) == SelectSeq(Indices(Len(pairs)), LAMBDA i : HasLiquidity(pairs[i]))

\* The sort key float(p.get("volume", {}).get("h24") or 0) is evaluated for
\* every filtered pair with no try around it: one raising key ends sorted().
VolumeKeyRaises(pairs, filtered_pairs) ==
    \E k \in 1..Len(filtered_pairs) : FloatRaises(pairs[filtered_pairs[k]].volume)

\* pairs_sorted, as indices into pairs.
SortByVolume(pairs, filtered_pairs) ==
    LET entries == [k \in 1..Len(filtered_pairs) |->
                      [key |-> Fraction(FloatValue(pairs[filtered_pairs[k]].volume), 1),
                       item |-> filtered_pairs[k]]]
        sorted == SortedDesc(entries)
    IN  [k \in 1..Len(sorted) |-> sorted[k].item]

\* One rendered pair block; src is the place of the pair in the fetched list.
Block(i, src, base, quote, dex, liquidity, vol24h, ratio_pct) ==
    [icon |-> Icon(i), src |-> src, base |-> base, quote |-> quote, dex |-> dex,
     liquidity |-> liquidity, vol24h |-> vol24h, ratio_pct |-> ratio_pct]

\* IsSolDripRaydium comparing the symbols as they are spelled, without upper().
IsSolDripRaydiumCaseSensitive(base, quote, dex) ==
    /\ {base, quote} = {"SOL", "DRIP"}
    /\ Lower(Strip(dex)) = "raydium"

\* symbols == {"SOL", "DRIP"} and dex.strip().lower() == "raydium"
IsSolDripRaydium(base, quote, dex) ==
    /\ {Upper(base), Upper(quote)} = {"SOL", "DRIP"}
    /\ Lower(Strip(dex)) = "raydium"

\* The loop over enumerate(pairs_sorted) from entry i (0-based) on. acc holds
\* the blocks appended so far, total_volume, sol_ray_vol, and whether a
\* statement of the body raised.
RECURSIVE VolumeLoop(_, _, _, _, _)
VolumeLoop(pairs, pairs_sorted, show_summary, i, acc) ==
    IF acc.raised \/ i >= Len(pairs_sorted) THEN acc
    ELSE LET src == pairs_sorted[i + 1]
             p == pairs[src]
         IN  IF SymbolRaises(p.baseToken) \/ SymbolRaises(p.quoteToken) \/ DexRaises(p.dexId)
             THEN [acc EXCEPT !.raised = TRUE]
             ELSE IF FloatRaises(p.liquidity)
             THEN VolumeLoop(pairs, pairs_sorted, show_summary, i + 1, acc)
             ELSE LET base == SymbolValue(p.baseToken)
                      quote == SymbolValue(p.quoteToken)
                      dex == DexValue(p.dexId)
                      liquidity_val == FloatValue(p.liquidity)
                      vol24h_val == IF FloatRaises(p.volume) THEN 0 ELSE FloatValue(p.volume)
                      line == Block(i, src, base, quote, dex, format_usd(liquidity_val),
                                    format_usd(vol24h_val), "")
                      counted == show_summary /\ IsSolDripRaydium(base, quote, dex)
                  IN  VolumeLoop(pairs, pairs_sorted, show_summary, i + 1,
                                 [raised |-> FALSE,
                                  blocks |-> Append(acc.blocks, line),
                                  total_volume |-> acc.total_volume + vol24h_val,
                                  sol_ray_vol |-> acc.sol_ray_vol + (IF counted THEN vol24h_val ELSE 0)])

\* The three summary lines appended when show_summary.
SummaryLines(show_summary, total_volume, sol_ray_vol) ==
    IF show_summary
    THEN <<"Summary (24H Volume):",
           "- SOL/DRIP (raydium): *" \o format_usd(sol_ray_vol) \o "*",
           "- All others combined: *" \o format_usd(total_volume - sol_ray_vol) \o "*">>
    ELSE <<>>

VolumeHeader(n) == "Found " \o ToString(n) \o " active LP pairs\n"

\* FetchFailed with one retry of the fetch before the error reply.
FetchFailedRetried(contract_address, e) ==
    Outcome(<<contract_address, contract_address>>, <<PlainReply("Error fetching data: " \o e)>>, FALSE)

\* except Exception as e: one reply with str(e), and return.
FetchFailed(contract_address, e) ==
    Outcome(<<contract_address>>, <<PlainReply("Error fetching data: " \o e)>>, FALSE)

\* handle_volume(update, contract_address, show_summary), given what the
\* fetch gives.
handle_volume(contract_address, show_summary, resp) ==
    IF resp.status = "error"
    THEN FetchFailed(contract_address, resp.err)
    ELSE LET pairs == PairsOf(resp)
             filtered_pairs == FilterLiquidity(pairs)
             pairs_sorted == SortByVolume(pairs, filtered_pairs)
             done == VolumeLoop(pairs, pairs_sorted, show_summary, 0,
                                [raised |-> FALSE, blocks |-> <<>>, total_volume |-> 0, sol_ray_vol |-> 0])
         IN  IF pairs = <<>>
             THEN Outcome(<<contract_address>>, <<PlainReply("No pairs found in DexScreener response.")>>, FALSE)
             ELSE IF filtered_pairs = <<>>
             THEN Outcome(<<contract_address>>, <<PlainReply("No valid LP pairs with liquidity found.")>>, FALSE)
             ELSE IF VolumeKeyRaises(pairs, filtered_pairs)
             THEN Outcome(<<contract_address>>, <<>>, TRUE)
             ELSE IF done.raised
             THEN Outcome(<<contract_address>>, <<>>, TRUE)
             ELSE Outcome(<<contract_address>>,
                          <<ReportReply(VolumeHeader(Len(pairs_sorted)), done.blocks,
                                        SummaryLines(show_summary, done.total_volume, done.sol_ray_vol))>>,
                          FALSE)

(***************************************************************************)
(* handle_ratio                                                            *)
(***************************************************************************)
\* The test that appends a pair to ratios: both float() calls returned, and
\* liquidity_val > 0 and vol24h_val > 0.
HasRatio(p) ==
    /\ ~FloatRaises(p.liquidity)
    /\ ~FloatRaises(p.volume)
    /\ FloatValue(p.liquidity) > 0
    /\ FloatValue(p.volume) > 0

\* ratios: one (ratio, liquidity_val, vol24h_val, p) per pair that passes.
Ratios(pairs) ==
    LET kept == SelectSeq(Indices(Len(pairs)), LAMBDA i : HasRatio(pairs[i]))
    IN  [k \in 1..Len(kept) |->
           [key |-> Fraction(FloatValue(pairs[kept[k]].volume), FloatValue(pairs[kept[k]].liquidity)),
            item |-> kept[k]]]

\* ratios_sorted = sorted(ratios, key=lambda x: x[0], reverse=True)
SortByRatio(ratios) == SortedDesc(ratios)

\* The loop over enumerate(ratios_sorted) from entry i (0-based) on.
RECURSIVE RatioLoop(_, _, _, _)
RatioLoop(pairs, ratios_sorted, i, acc) ==
    IF acc.raised \/ i >= Len(ratios_sorted) THEN acc
    ELSE LET src == ratios_sorted[i + 1].item
             ratio == ratios_sorted[i + 1].key
             p == pairs[src]
         IN  IF SymbolRaises(p.baseToken) \/ SymbolRaises(p.quoteToken) \/ DexRaises(p.dexId)
             THEN [acc EXCEPT !.raised = TRUE]
             ELSE LET line == Block(i, src, SymbolValue(p.baseToken), SymbolValue(p.quoteToken),
                                    DexValue(p.dexId), format_usd(ratio.den), format_usd(ratio.num),
                                    format_pct(ratio))
                  IN  RatioLoop(pairs, ratios_sorted, i + 1,
                                [raised |-> FALSE, blocks |-> Append(acc.blocks, line)])

RatioHeader(n) == "Found " \o ToString(n) \o " LP pairs ranked by ratio (24H Volume / Liquidity)\n"

\* handle_ratio(update, contract_address), given what the fetch gives.
handle_ratio(contract_address, resp) ==
    IF resp.status = "error"
    THEN FetchFailed(contract_address, resp.err)
    ELSE LET pairs == PairsOf(resp)
             ratios == Ratios(pairs)
             ratios_sorted == SortByRatio(ratios)
             done == RatioLoop(pairs, ratios_sorted, 0, [raised |-> FALSE, blocks |-> <<>>])
         IN  IF pairs = <<>>
             THEN Outcome(<<contract_address>>, <<PlainReply("No pairs found in DexScreener response.")>>, FALSE)
             ELSE IF ratios = <<>>
             THEN Outcome(<<contract_address>>, <<PlainReply("No valid pairs with ratio data found.")>>, FALSE)
             ELSE IF done.raised
             THEN Outcome(<<contract_address>>, <<>>, TRUE)
             ELSE Outcome(<<contract_address>>,
                          <<ReportReply(RatioHeader(Len(ratios_sorted)), done.blocks, <<>>)>>,
                          FALSE)

(***************************************************************************)
(* Inputs                                                                  *)
(***************************************************************************)
\* The shapes a liquidity or volume field is drawn from.
NumShapes == {NumAbsent, NumNull, NumNoLeaf, NumText, Num(0), Num(1), Num(2)}

\* Pairs with every liquidity and volume shape, the tokens well formed.
FieldPairs ==
    {Pair(l, v, Tok("DRIP"), Tok("SOL"), Dex("raydium")) : l \in NumShapes, v \in NumShapes}

\* Pairs with well-formed numbers: long enough lists reach every rank.
RankPairs ==
    {Pair(Num(l), Num(v), Tok("DRIP"), Tok("SOL"), Dex("raydium")) : l \in {1, 2}, v \in {0, 1, 2}}

\* The token and dexId shapes of a pair: base, quote, dexId.
SymbolCases ==
    { <<Tok("SOL"), Tok(" drip"), Dex("Raydium ")>>,
      <<Tok("DRIP"), Tok("Sol"), Dex("raydium")>>,
      <<Tok("SOL"), Tok("DRIP"), Dex("ORCA")>>,
      <<Tok("SOL"), Tok("USDC"), Dex("raydium")>>,
      <<Tok("SOL"), Tok("SOL"), Dex("raydium")>>,
      <<TokAbsent, Tok("DRIP"), Dex("raydium")>>,
      <<TokNoSymbol, Tok("SOL"), DexAbsent>>,
      <<Tok("SOL"), Tok("DRIP"), DexNull>>,
      <<TokNull, Tok("SOL"), Dex("raydium")>>,
      <<Tok("SOL"), Tok("DRIP"), DexNumber>> }

SymbolPairs ==
    {Pair(Num(1), Num(v), c[1], c[2], c[3]) : v \in {1, 2}, c \in SymbolCases}

\* The lists of at most n pairs of S.
ListsUpTo(S, n) == UNION {[1..k -> S] : k \in 0..n}

PairLists ==
    ListsUpTo(FieldPairs, MaxPairs) \cup ListsUpTo(RankPairs, MaxRanked)
        \cup ListsUpTo(SymbolPairs, MaxSymbolPairs)

\* str(e) of the exception requests raised.
FetchErrors == {"Read timed out", "404 Client Error"}

\* What fetch_token_endpoint can give.
Responses ==
    {FetchError(e) : e \in FetchErrors}
        \cup {FetchData("absent", <<>>), FetchData("null", <<>>)}
        \cup {FetchData("list", ps) : ps \in PairLists}

\* context.args of an update.
ArgLists == {<<>>, <<"CA1">>, <<"CA2", "CA1">>}

\* The contract address /volume and /ratio pass.
HomeToken == "w131jbryFvFEmtqmZvx42Meiuc4Drmu3nodTdVgkREV"

\* os.getenv("TELEGRAM_TOKEN"): None when unset, else the text.
EnvValues == {"None", "", "123:abc"}

\* What "from dotenv import load_dotenv; load_dotenv()" does: it raises, or it
\* returns with the .env file defining no token, an empty one, or a token.
DotenvOutcomes == {"raises", "None", "", "123:abc"}

\* The commands main registers, in order.
Commands == <<"start", "volume", "ratio", "volume_other", "ratio_other">>

(***************************************************************************)
(* State                                                                   *)
(***************************************************************************)
VARIABLES
    TELEGRAM_TOKEN,  \* the module-level value: "None", or the text
    mainPc,          \* where the process is: import, loaded, returned,
                     \* construct, raised, register, polling
    printed,         \* main printed its "TELEGRAM_TOKEN not set" line
    handlers,        \* the commands added to the dispatcher, in order
    pc,              \* the handler of the current update: idle, returned, raised
    cmd,             \* the command of the current update
    args,            \* context.args of the current update
    response,        \* what fetch_token_endpoint gave in this invocation
    fetches,         \* the addresses fetch_token_endpoint was called with
    replies          \* the reply_text calls of this invocation

vars == <<TELEGRAM_TOKEN, mainPc, printed, handlers, pc, cmd, args, response, fetches, replies>>

startup == <<TELEGRAM_TOKEN, mainPc, printed, handlers>>

invocation == <<pc, cmd, args, response, fetches, replies>>

Init ==
    /\ TELEGRAM_TOKEN = "None"
    /\ mainPc = "import"
    /\ printed = FALSE
    /\ handlers = <<>>
    /\ pc = "idle"
    /\ cmd = ""
    /\ args = <<>>
    /\ response = NoResponse
    /\ fetches = <<>>
    /\ replies = <<>>

(***************************************************************************)
(* Start-up                                                                *)
(***************************************************************************)
\* The value of TELEGRAM_TOKEN after the module-level load: os.getenv, and when
\* that is None or empty, load_dotenv() and os.getenv again. load_dotenv does
\* not replace a variable the environment already has; when the import or the
\* call raises, the first value stays.
LoadedToken(env, dotenv) ==
    IF env \notin {"None", ""} THEN env
    ELSE IF dotenv = "raises" THEN env
    ELSE IF env = "None" THEN dotenv
    ELSE env

LoadToken ==
    /\ mainPc = "import"
    /\ \E env \in EnvValues, dotenv \in DotenvOutcomes :
          TELEGRAM_TOKEN' = LoadedToken(env, dotenv)
    /\ mainPc' = "loaded"
    /\ UNCHANGED <<printed, handlers>>
    /\ UNCHANGED invocation

\* if TELEGRAM_TOKEN is None
TokenMissing(token) == token = "None"

\* main, to its first call: the diagnostic and return, or on to Updater(...).
main ==
    /\ mainPc = "loaded"
    /\ IF TokenMissing(TELEGRAM_TOKEN)
       THEN printed' = TRUE /\ mainPc' = "returned"
       ELSE printed' = printed /\ mainPc' = "construct"
    /\ UNCHANGED <<TELEGRAM_TOKEN, handlers>>
    /\ UNCHANGED invocation

\* Updater(TELEGRAM_TOKEN, use_context=True): the library validates the token
\* and raises InvalidToken or returns the updater; main has no try around it.
\* python-telegram-bot 13.15, the version the module requires, rejects every
\* token without a ':' in it, the empty one included.
ConstructUpdater ==
    /\ mainPc = "construct"
    /\ \/ TELEGRAM_TOKEN # "" /\ mainPc' = "register"
       \/ mainPc' = "raised"
    /\ UNCHANGED <<TELEGRAM_TOKEN, printed, handlers>>
    /\ UNCHANGED invocation

\* The next dp.add_handler(CommandHandler(...)) of main.
AddHandler ==
    /\ mainPc = "register"
    /\ Len(handlers) < Len(Commands)
    /\ handlers' = Append(handlers, Commands[Len(handlers) + 1])
    /\ UNCHANGED <<TELEGRAM_TOKEN, mainPc, printed>>
    /\ UNCHANGED invocation

\* updater.start_polling(); updater.idle()
StartPolling ==
    /\ mainPc = "register"
    /\ Len(handlers) = Len(Commands)
    /\ mainPc' = "polling"
    /\ UNCHANGED <<TELEGRAM_TOKEN, printed, handlers>>
    /\ UNCHANGED invocation

(***************************************************************************)
(* Command handlers                                                        *)
(***************************************************************************)
\* The dispatcher calls the handler of command c: the updater polls, c was
\* added, and no handler is running.
Dispatched(c) ==
    /\ mainPc = "polling"
    /\ \E k \in 1..Len(handlers) : handlers[k] = c
    /\ pc = "idle"

\* The handler ran to its end with this outcome.
Ran(c, a, resp, out) ==
    /\ cmd' = c
    /\ args' = a
    /\ response' = resp
    /\ fetches' = out.fetches
    /\ replies' = out.replies
    /\ pc' = IF out.raised THEN "raised" ELSE "returned"
    /\ UNCHANGED startup

WelcomeText ==
    "Welcome! Commands available:\n"
        \o "/volume -> DRIP LP pairs by 24H volume\n"
        \o "/ratio -> DRIP LP pairs by ratio\n"
        \o "/volume_other <TOKEN_CA> -> LP pairs of another token by 24H volume\n"
        \o "/ratio_other <TOKEN_CA> -> LP pairs of another token by ratio"

\* contract_address = context.args[0]
FirstArg(a) == a[1]

\* start(update, context)
start ==
    /\ Dispatched("start")
    /\ \E a \in ArgLists :
          Ran("start", a, NoResponse, Outcome(<<>>, <<PlainReply(WelcomeText)>>, FALSE))

\* volume(update, context)
volume ==
    /\ Dispatched("volume")
    /\ \E a \in ArgLists, resp \in Responses :
          Ran("volume", a, resp, handle_volume(HomeToken, TRUE, resp))

\* ratio(update, context)
ratio ==
    /\ Dispatched("ratio")
    /\ \E a \in ArgLists, resp \in Responses :
          Ran("ratio", a, resp, handle_ratio(HomeToken, resp))

\* volume_other without the "if not context.args" test: the handler fetches
\* whatever the arguments are.
volume_other_unchecked ==
    /\ Dispatched("volume_other")
    /\ \E a \in ArgLists, resp \in Responses :
          Ran("volume_other", a, resp, handle_volume(IF a = <<>> THEN "" ELSE FirstArg(a), FALSE, resp))

\* volume_other(update, context)
volume_other ==
    /\ Dispatched("volume_other")
    /\ \E a \in ArgLists :
          IF a = <<>>
          THEN Ran("volume_other", a, NoResponse,
                   Outcome(<<>>, <<PlainReply("Usage: /volume_other <TOKEN_CA>")>>, FALSE))
          ELSE \E resp \in Responses :
                  Ran("volume_other", a, resp, handle_volume(FirstArg(a), FALSE, resp))

\* ratio_other(update, context)
ratio_other ==
    /\ Dispatched("ratio_other")
    /\ \E a \in ArgLists :
          IF a = <<>>
          THEN Ran("ratio_other", a, NoResponse,
                   Outcome(<<>>, <<PlainReply("Usage: /ratio_other <TOKEN_CA>")>>, FALSE))
          ELSE \E resp \in Responses :
                  Ran("ratio_other", a, resp, handle_ratio(FirstArg(a), resp))

\* The dispatcher is done with the update (it logs an exception that left the
\* handler) and the objects of the invocation are dropped.
NextUpdate ==
    /\ pc \in {"returned", "raised"}
    /\ pc' = "idle"
    /\ cmd' = ""
    /\ args' = <<>>
    /\ response' = NoResponse
    /\ fetches' = <<>>
    /\ replies' = <<>>
    /\ UNCHANGED startup

Next ==
    \/ LoadToken
    \/ main
    \/ ConstructUpdater
    \/ AddHandler
    \/ StartPolling
    \/ start
    \/ volume
    \/ ratio
    \/ volume_other
    \/ ratio_other
    \/ NextUpdate

Spec == Init /\ [][Next]_vars

(***************************************************************************)
(* Properties                                                              *)
(***************************************************************************)
\* A handler has run to its end in the current state.
Finished == pc \in {"returned", "raised"}

\* The handler ran handle_volume / handle_ratio and its fetch succeeded.
VolumeFetched == Finished /\ cmd \in {"volume", "volume_other"} /\ response.status = "ok"

RatioFetched == Finished /\ cmd \in {"ratio", "ratio_other"} /\ response.status = "ok"

\* The one reply sent is the ranked report.
Reported == Finished /\ Len(replies) = 1 /\ replies[1].parse_mode = "Markdown"

\* The one reply sent is this plain text.
Said(t) == Len(replies) = 1 /\ replies[1] = PlainReply(t)

\* The pair blocks sent to the user, in order (none when nothing was rendered).
Rendered == IF Len(replies) = 1 THEN replies[1].blocks ELSE <<>>

\* A field that is a number (or a numeric text) above 0.
ParsesPositive(f) == f.kind = "num" /\ f.n > 0

\* A field that is missing, null or not a number.
Malformed(f) == f.kind \in {"absent", "null", "noleaf", "text"}

\* The places of the fetched pairs whose liquidity is a number > 0.
Liquid == {i \in 1..Len(response.pairs) : ParsesPositive(response.pairs[i].liquidity)}

\* The places of the fetched pairs whose liquidity and volume are numbers > 0.
RatioEligible == {i \in Liquid : ParsesPositive(response.pairs[i].volume)}

\* The 24-hour volume of the fetched pair at place i, 0 when it is no number.
VolumeAt(i) == IF response.pairs[i].volume.kind = "num" THEN response.pairs[i].volume.n ELSE 0

LiquidityAt(i) == response.pairs[i].liquidity.n

\* The rendered blocks are the pairs at the places S, each once.
RendersExactly(S) ==
    /\ {Rendered[k].src : k \in 1..Len(Rendered)} = S
    /\ Len(Rendered) = Cardinality(S)

\* Non-increasing in volume, and equal volumes in input order.
VolumeOrdered ==
    \A j, k \in 1..Len(Rendered) :
        j < k => \/ VolumeAt(Rendered[j].src) > VolumeAt(Rendered[k].src)
                 \/ /\ VolumeAt(Rendered[j].src) = VolumeAt(Rendered[k].src)
                    /\ Rendered[j].src < Rendered[k].src

\* Non-increasing in volume / liquidity, and equal ratios in input order.
RatioOrdered ==
    \A j, k \in 1..Len(Rendered) :
        LET a == Rendered[j].src
            b == Rendered[k].src
        IN  j < k => \/ VolumeAt(a) * LiquidityAt(b) > VolumeAt(b) * LiquidityAt(a)
                     \/ /\ VolumeAt(a) * LiquidityAt(b) = VolumeAt(b) * LiquidityAt(a)
                        /\ a < b

\* The token objects and dexId of every fetched pair are objects and texts
\* (or missing): the numeric fields are the only ones that can be malformed.
TokensWellFormed ==
    \A i \in 1..Len(response.pairs) :
        /\ response.pairs[i].baseToken.kind # "null"
        /\ response.pairs[i].quoteToken.kind # "null"
        /\ response.pairs[i].dexId.kind # "number"

\* C1: after a successful fetch the blocks of the volume report are exactly
\* the pairs whose liquidity is a number > 0, each once, in non-increasing
\* order of 24-hour volume, equal volumes in input order. Stated on the lists
\* whose token objects and dexId are well formed, where only the numeric
\* fields decide it.
C1_VolumeRanking ==
    (VolumeFetched /\ TokensWellFormed) => RendersExactly(Liquid) /\ VolumeOrdered

\* What holds of the volume report whenever it is sent.
VolumeRankingWhenReported ==
    (Reported /\ cmd \in {"volume", "volume_other"}) => RendersExactly(Liquid) /\ VolumeOrdered

\* C2: after a successful fetch the blocks of the ratio report are exactly the
\* pairs whose liquidity and volume are numbers > 0, each once, in
\* non-increasing order of volume / liquidity, equal ratios in input order.
C2_RatioRanking == RatioFetched => RendersExactly(RatioEligible) /\ RatioOrdered

\* What holds of the ratio report whenever it is sent, and on every fetched
\* list whose token objects and dexId are well formed.
RatioRankingWhenReported ==
    /\ (Reported /\ cmd \in {"ratio", "ratio_other"}) => RendersExactly(RatioEligible) /\ RatioOrdered
    /\ (RatioFetched /\ TokensWellFormed) => RendersExactly(RatioEligible) /\ RatioOrdered /\ pc = "returned"

\* C3: a malformed numeric field never aborts a report. In the volume report a
\* pair of positive liquidity whose volume is missing, null or no number is
\* still rendered, with volume 0, in a report that is sent; in the ratio report
\* it is left out; a pair of malformed liquidity is left out of both.
C3_MalformedNumbersTolerated ==
    (Finished /\ response.status = "ok" /\ TokensWellFormed) =>
        /\ pc = "returned"
        /\ \A i \in 1..Len(response.pairs) :
              LET p == response.pairs[i]
                  shown == {k \in 1..Len(Rendered) : Rendered[k].src = i}
              IN  /\ Malformed(p.liquidity) => shown = {}
                  /\ (cmd \in {"ratio", "ratio_other"} /\ Malformed(p.volume)) => shown = {}
                  /\ (cmd \in {"volume", "volume_other"} /\ i \in Liquid /\ Malformed(p.volume)) =>
                        /\ Reported
                        /\ VolumeOrdered
                        /\ \E k \in shown : Rendered[k].vol24h = "$0.00"

\* The spellings Python's upper() / lower() (after strip()) send to SOL, DRIP
\* and raydium, among the texts of the inputs.
SolSpellings == {"SOL", "Sol"}

DripSpellings == {"DRIP", "drip"}

RaydiumSpellings == {"raydium", "Raydium"}

\* The rendered block is the SOL/DRIP pair on raydium, in either order.
IsHomePool(b) ==
    /\ \/ b.base \in SolSpellings /\ b.quote \in DripSpellings
       \/ b.base \in DripSpellings /\ b.quote \in SolSpellings
    /\ b.dex \in RaydiumSpellings

\* The 24-hour volume summed over the first k rendered blocks.
TotalTo[k \in 0..Len(Rendered)] ==
    IF k = 0 THEN 0 ELSE TotalTo[k - 1] + VolumeAt(Rendered[k].src)

\* The same over the SOL/DRIP (raydium) blocks among them.
HomePoolTo[k \in 0..Len(Rendered)] ==
    IF k = 0 THEN 0
    ELSE HomePoolTo[k - 1] + (IF IsHomePool(Rendered[k]) THEN VolumeAt(Rendered[k].src) ELSE 0)

\* The report of /volume, the one command that passes show_summary=True.
SummaryShown == Reported /\ cmd = "volume"

\* C4: in the report with the summary, the SOL/DRIP (raydium) figure is the
\* 24-hour volume summed over exactly the rendered SOL/DRIP raydium blocks
\* (either order, any case), and "All others combined" is the total of all
\* rendered blocks minus it.
C4_SummarySubtotal ==
    SummaryShown =>
        LET total == TotalTo[Len(Rendered)]
            home == HomePoolTo[Len(Rendered)]
        IN  /\ Len(replies[1].summary) = 3
            /\ replies[1].summary[2] = "- SOL/DRIP (raydium): *" \o format_usd(home) \o "*"
            /\ replies[1].summary[3] = "- All others combined: *" \o format_usd(total - home) \o "*"

\* A summary with a home-pool block spelled in another case, a positive
\* subtotal and a positive rest.
C4_Witness ==
    /\ SummaryShown
    /\ HomePoolTo[Len(Rendered)] > 0
    /\ TotalTo[Len(Rendered)] > HomePoolTo[Len(Rendered)]
    /\ \E k \in 1..Len(Rendered) : IsHomePool(Rendered[k]) /\ Rendered[k].quote = "drip"

\* C5: when the fetch fails, the invocation sends exactly one reply,
\* "Error fetching data: <description>", has fetched once, and renders nothing.
C5_FetchFailureReply ==
    (Finished /\ response.status = "error") =>
        /\ replies = <<PlainReply("Error fetching data: " \o response.err)>>
        /\ Len(fetches) = 1
        /\ pc = "returned"

C5_Witness ==
    /\ Finished
    /\ response.status = "error"
    /\ cmd = "ratio_other"
    /\ Len(replies) = 1

\* C6: /volume_other and /ratio_other with no argument reply with the usage
\* text and fetch nothing; with arguments, they fetch the first one only.
C6_UsageWithoutFetch ==
    (Finished /\ cmd \in {"volume_other", "ratio_other"}) =>
        IF args = <<>>
        THEN /\ Said("Usage: /" \o cmd \o " <TOKEN_CA>")
             /\ fetches = <<>>
        ELSE fetches = <<args[1]>>

C6_Witness ==
    /\ Finished
    /\ cmd = "volume_other"
    /\ args = <<>>
    /\ replies # <<>>

\* The icon the claim gives rank k (0-based).
RankIcon(k) == IF k = 0 THEN "gold" ELSE IF k = 1 THEN "silver" ELSE IF k = 2 THEN "bronze" ELSE "moneybag"

\* The places of the pairs that pass the filter of the command that ran.
Survivors == IF cmd \in {"ratio", "ratio_other"} THEN RatioEligible ELSE Liquid

\* C7: in every report the k-th block (k = 0, 1, ...) has the icon of rank k,
\* every pair that passed the filter has a block, and the header announces
\* the number of blocks.
C7_DenseRanks ==
    Reported =>
        /\ \A k \in 1..Len(Rendered) : Rendered[k].icon = RankIcon(k - 1)
        /\ RendersExactly(Survivors)
        /\ replies[1].text =
              IF cmd \in {"ratio", "ratio_other"}
              THEN "Found " \o ToString(Len(Rendered)) \o " LP pairs ranked by ratio (24H Volume / Liquidity)\n"
              ELSE "Found " \o ToString(Len(Rendered)) \o " active LP pairs\n"

\* A report with a block at rank 3 or beyond.
C7_Witness ==
    /\ Reported
    /\ Len(Rendered) >= 4
    /\ Rendered[4].icon = "moneybag"

\* C8: after a successful fetch the no-data replies are decided step by step:
\* "No pairs found" exactly when pairs is absent, null or empty; otherwise the
\* volume report says "No valid LP pairs" exactly when no pair has liquidity
\* > 0, the ratio report says "No valid pairs with ratio data" exactly when no
\* pair has liquidity > 0 and volume > 0; in every other case a report with at
\* least one block is sent. Stated on the lists whose token objects and dexId
\* are well formed.
C8_NoDataOutcomes ==
    (Finished /\ response.status = "ok" /\ TokensWellFormed) =>
        LET none == response.pairs = <<>>
            noSurvivor == Survivors = {}
            noneText == "No pairs found in DexScreener response."
            emptyText == IF cmd \in {"ratio", "ratio_other"}
                         THEN "No valid pairs with ratio data found."
                         ELSE "No valid LP pairs with liquidity found."
        IN  /\ Said(noneText) <=> none
            /\ ~none => (Said(emptyText) <=> noSurvivor)
            /\ (~none /\ ~noSurvivor) => (Reported /\ Len(Rendered) >= 1)

\* C9: with the token absent after the load (None or empty), main prints the
\* diagnostic and returns: no updater is constructed, no handler is added, no
\* command is served.
C9_NoTokenNoBot ==
    (mainPc \notin {"import", "loaded"} /\ TELEGRAM_TOKEN \in {"None", ""}) =>
        /\ printed
        /\ mainPc = "returned"
        /\ handlers = <<>>
        /\ pc = "idle"

\* C10: every invocation of a handler ends with exactly one reply sent and at
\* most one fetch made, whatever the fetch gave.
C10_OneReplyPerInvocation ==
    Finished =>
        /\ pc = "returned"
        /\ Len(replies) = 1
        /\ Len(fetches) <= 1

====
